---- MODULE Spec2Model ----
(***************************************************************************)
(* Model of WEEK2/heredity/heredity.py: exact inference by enumeration     *)
(* over a family's gene counts and trait values.                           *)
(*                                                                         *)
(* Numbers.  The program computes with Python floats.  The model computes  *)
(* with exact rationals num / (den * 100^e) whose num and den are          *)
(* arbitrary-precision naturals (little-endian sequences of limbs), so     *)
(* every statement below is a statement about the real-number values of    *)
(* the program's expressions; rounding in the last bit is not modelled.    *)
(*                                                                         *)
(* Persons are the integers 1..k in the order of the rows of the CSV file  *)
(* (the insertion order of the dict `people`).                             *)
(***************************************************************************)
EXTENDS Integers, Sequences, FiniteSets, TLC

\* ------------------------------------------------------------------ bounds
\* the largest number of rows of a CSV file
MaxPeople == 3
\* the largest number of calls of update in SpecUpdate
MaxCalls == 2
\* the largest value of a bucket, in hundredths, in SpecNormalize
MaxMass == 1

\* ------------------------------------------------- arbitrary-size naturals
Hundred == 100
Base == Hundred * Hundred

BigZero == <<>>
BigOne == <<1>>

Big(n) ==
    IF n = 0 THEN <<>>
    ELSE IF n < Base THEN <<n>>
    ELSE <<n % Base, n \div Base>>

Limb(a, i) == IF i <= Len(a) THEN a[i] ELSE 0

RECURSIVE AddLimbs(_, _, _, _)
AddLimbs(a, b, i, carry) ==
    IF i > Len(a) /\ i > Len(b)
    THEN IF carry = 0 THEN <<>> ELSE <<carry>>
    ELSE LET s == Limb(a, i) + Limb(b, i) + carry
         IN  <<s % Base>> \o AddLimbs(a, b, i + 1, s \div Base)

BigAdd(a, b) ==
    IF a = <<>> THEN b ELSE IF b = <<>> THEN a ELSE AddLimbs(a, b, 1, 0)

RECURSIVE MulLimbs(_, _, _, _)
MulLimbs(a, k, i, carry) ==
    IF i > Len(a)
    THEN IF carry = 0 THEN <<>> ELSE <<carry>>
    ELSE LET s == a[i] * k + carry
         IN  <<s % Base>> \o MulLimbs(a, k, i + 1, s \div Base)

BigMulSmall(a, k) ==
    IF k = 0 \/ a = <<>> THEN <<>>
    ELSE IF k = 1 THEN a
    ELSE MulLimbs(a, k, 1, 0)

RECURSIVE MulRows(_, _, _)
MulRows(a, b, i) ==
    IF i > Len(b) THEN <<>>
    ELSE LET rest == MulRows(a, b, i + 1)
         IN  BigAdd(BigMulSmall(a, b[i]),
                    IF rest = <<>> THEN <<>> ELSE <<0>> \o rest)

BigMul(a, b) ==
    IF a = <<>> \/ b = <<>> THEN <<>>
    ELSE IF Len(b) = 1 THEN BigMulSmall(a, b[1])
    ELSE IF Len(a) = 1 THEN BigMulSmall(b, a[1])
    ELSE IF Len(b) <= Len(a) THEN MulRows(a, b, 1) ELSE MulRows(b, a, 1)

\* a * 100^e
RECURSIVE BigScale(_, _)
BigScale(a, e) ==
    IF e = 0 \/ a = <<>> THEN a
    ELSE IF e = 1 THEN BigMulSmall(a, Hundred)
    ELSE <<0>> \o BigScale(a, e - 2)

RECURSIVE Strip(_)
Strip(a) ==
    IF a = <<>> THEN <<>>
    ELSE IF a[Len(a)] = 0 THEN Strip(SubSeq(a, 1, Len(a) - 1))
    ELSE a

RECURSIVE SubLimbs(_, _, _, _)
SubLimbs(a, b, i, borrow) ==
    IF i > Len(a) THEN <<>>
    ELSE LET d == a[i] - Limb(b, i) - borrow
         IN  IF d < 0
             THEN <<d + Base>> \o SubLimbs(a, b, i + 1, 1)
             ELSE <<d>> \o SubLimbs(a, b, i + 1, 0)

\* a - b for a >= b
BigSub(a, b) == IF b = <<>> THEN a ELSE Strip(SubLimbs(a, b, 1, 0))

\* ----------------------------------------------------------- exact numbers
\* The number num / (den * 100^e).  A float literal with two decimals, and
\* every sum and product of such, has den = 1.
Dec(n, e) == [num |-> Big(n), den |-> BigOne, e |-> e]
Zero == Dec(0, 0)
One == Dec(1, 0)

Add(x, y) ==
    IF x.den = y.den
    THEN IF x.e = y.e
         THEN [num |-> BigAdd(x.num, y.num), den |-> x.den, e |-> x.e]
         ELSE IF x.e < y.e
         THEN [num |-> BigAdd(BigScale(x.num, y.e - x.e), y.num),
               den |-> x.den, e |-> y.e]
         ELSE [num |-> BigAdd(x.num, BigScale(y.num, x.e - y.e)),
               den |-> x.den, e |-> x.e]
    ELSE [num |-> BigAdd(BigScale(BigMul(x.num, y.den), y.e),
                         BigScale(BigMul(y.num, x.den), x.e)),
          den |-> BigMul(x.den, y.den), e |-> x.e + y.e]

Mul(x, y) ==
    [num |-> BigMul(x.num, y.num), den |-> BigMul(x.den, y.den), e |-> x.e + y.e]

\* 1 - x for 0 <= x <= 1
OneMinus(x) ==
    [num |-> BigSub(BigScale(x.den, x.e), x.num), den |-> x.den, e |-> x.e]

\* x / y for y # 0
Div(x, y) ==
    [num |-> BigScale(BigMul(x.num, y.den), y.e),
     den |-> BigScale(BigMul(x.den, y.num), x.e), e |-> 0]

IsZero(x) == x.num = BigZero

Eq(x, y) ==
    BigScale(BigMul(x.num, y.den), y.e) = BigScale(BigMul(y.num, x.den), x.e)

\* ------------------------------------------------------------------- PROBS
None == 0

PROBS ==
    [gene |-> (2 :> Dec(1, 1)) @@ (1 :> Dec(3, 1)) @@ (0 :> Dec(96, 1)),
     trait |-> (2 :> ((TRUE :> Dec(65, 1)) @@ (FALSE :> Dec(35, 1))))
            @@ (1 :> ((TRUE :> Dec(56, 1)) @@ (FALSE :> Dec(44, 1))))
            @@ (0 :> ((TRUE :> Dec(1, 1)) @@ (FALSE :> Dec(99, 1)))),
     mutation |-> Dec(1, 1)]

Half == Dec(50, 1)

VARIABLES
    people,         \* main: people (load_data's result)
    probabilities,  \* main: probabilities
    pc,             \* position in main
    error,          \* the exception that ended the run, "none" if none
    traits, ones, twos,   \* the lists the three loops of main run over
    ti, oi, wi,     \* positions of the three loops in their lists
    have_trait, one_gene, two_genes, p,   \* main's locals at the last call
    scoredTraits,   \* history: the have_trait sets scored so far, in order
    scoredGenes,    \* history: the (one_gene, two_genes) pairs scored for the
                    \* current have_trait, in order
    applied,        \* history: the calls of update so far, each with the
                    \* number of times it was made (their order is not kept)
    given           \* history: the accumulators normalize was called with

vars == <<people, probabilities, pc, error, traits, ones, twos, ti, oi, wi,
          have_trait, one_gene, two_genes, p, scoredTraits, scoredGenes, applied,
          given>>

\* ---------------------------------------------------------------- load_data
\* A cell of the CSV file: a name (1, 2, ...), or Blank for the empty string.
Blank == -1

TraitCells == {"1", "0", ""}

load_data(file) ==
    [name \in DOMAIN file |->
        [name |-> name,
         mother |-> IF file[name].mother = Blank THEN None ELSE file[name].mother,
         father |-> IF file[name].father = Blank THEN None ELSE file[name].father,
         trait |-> IF file[name].trait = "1" THEN "True"
                   ELSE IF file[name].trait = "0" THEN "False" ELSE "None"]]

\* ----------------------------------------------------------------- powerset
\* list(s): the model lists a set in ascending order of names.
RECURSIVE SetToList(_)
SetToList(s) ==
    IF s = {} THEN <<>>
    ELSE LET x == CHOOSE y \in s : \A z \in s : y <= z
         IN  <<x>> \o SetToList(s \ {x})

RECURSIVE WithHead(_, _, _)
WithHead(x, cs, i) ==
    IF i > Len(cs) THEN <<>> ELSE <<cs[i] \cup {x}>> \o WithHead(x, cs, i + 1)

\* Faulty variant of combinations: the combination that takes the whole list
\* is lost.
RECURSIVE combinations_short(_, _)
combinations_short(l, r) ==
    IF r = 0 THEN <<{}>>
    ELSE IF Len(l) <= r THEN <<>>
    ELSE WithHead(l[1], combinations_short(Tail(l), r - 1), 1)
         \o combinations_short(Tail(l), r)

\* itertools.combinations(l, r), each combination as a set
RECURSIVE combinations(_, _)
combinations(l, r) ==
    IF r = 0 THEN <<{}>>
    ELSE IF Len(l) < r THEN <<>>
    ELSE WithHead(l[1], combinations(Tail(l), r - 1), 1) \o combinations(Tail(l), r)

RECURSIVE chain(_, _)
chain(l, r) ==
    IF r > Len(l) THEN <<>> ELSE combinations(l, r) \o chain(l, r + 1)

powerset(s) == chain(SetToList(s), 0)

\* -------------------------------------------------------- joint_probability
gene_count(person, og, tg) ==
    IF person \in og THEN 1 ELSE IF person \in tg THEN 2 ELSE 0

parent_gene_inheritance_probability(parent_name, og, tg) ==
    IF parent_name \in og THEN Half
    ELSE IF parent_name \in tg THEN OneMinus(PROBS.mutation)
    ELSE PROBS.mutation

\* Faulty variant of gene_term: for one copy, only the case "from the mother,
\* not from the father" is counted.
gene_term_one_way(ppl, person, og, tg) ==
    LET person_gene_count == gene_count(person, og, tg)
    IN  IF ppl[person].mother # None /\ ppl[person].father # None
        THEN LET m == parent_gene_inheritance_probability(ppl[person].mother, og, tg)
                 f == parent_gene_inheritance_probability(ppl[person].father, og, tg)
             IN  IF person_gene_count = 1
                 THEN Mul(m, OneMinus(f))
                 ELSE IF person_gene_count = 2
                 THEN Mul(m, f)
                 ELSE Mul(OneMinus(m), OneMinus(f))
        ELSE PROBS.gene[person_gene_count]

\* Faulty variant of gene_term: a person without parents gets no prior.
gene_term_no_prior(ppl, person, og, tg) ==
    LET person_gene_count == gene_count(person, og, tg)
    IN  IF ppl[person].mother # None /\ ppl[person].father # None
        THEN LET m == parent_gene_inheritance_probability(ppl[person].mother, og, tg)
                 f == parent_gene_inheritance_probability(ppl[person].father, og, tg)
             IN  IF person_gene_count = 1
                 THEN Add(Mul(m, OneMinus(f)), Mul(OneMinus(m), f))
                 ELSE IF person_gene_count = 2
                 THEN Mul(m, f)
                 ELSE Mul(OneMinus(m), OneMinus(f))
        ELSE One

gene_term(ppl, person, og, tg) ==
    LET person_gene_count == gene_count(person, og, tg)
    IN  IF ppl[person].mother # None /\ ppl[person].father # None
        THEN LET m == parent_gene_inheritance_probability(ppl[person].mother, og, tg)
                 f == parent_gene_inheritance_probability(ppl[person].father, og, tg)
             IN  IF person_gene_count = 1
                 THEN Add(Mul(m, OneMinus(f)), Mul(OneMinus(m), f))
                 ELSE IF person_gene_count = 2
                 THEN Mul(m, f)
                 ELSE Mul(OneMinus(m), OneMinus(f))
        ELSE PROBS.gene[person_gene_count]

RECURSIVE joint_loop(_, _, _, _, _, _)
joint_loop(ppl, og, tg, ht, todo, result) ==
    IF todo = <<>> THEN result
    ELSE LET person == todo[1]
             r1 == Mul(result, gene_term(ppl, person, og, tg))
             r2 == Mul(r1, PROBS.trait[gene_count(person, og, tg)][(person \in ht)])
         IN  joint_loop(ppl, og, tg, ht, Tail(todo), r2)

joint_probability(ppl, og, tg, ht) ==
    joint_loop(ppl, og, tg, ht, SetToList(DOMAIN ppl), One)

\* ------------------------------------------------------------------- update
\* Faulty variant of update: two_genes is looked at before one_gene.
update_two_first(probs, og, tg, ht, pr) ==
    [person \in DOMAIN probs |->
        [gene |-> [g \in 0..2 |->
                      IF g = (IF person \in tg THEN 2 ELSE IF person \in og THEN 1 ELSE 0)
                      THEN Add(probs[person].gene[g], pr)
                      ELSE probs[person].gene[g]],
         trait |-> [t \in BOOLEAN |->
                      IF t = (person \in ht)
                      THEN Add(probs[person].trait[t], pr)
                      ELSE probs[person].trait[t]]]]

\* Faulty variant of update: the trait bucket False is never added to.
update_true_only(probs, og, tg, ht, pr) ==
    [person \in DOMAIN probs |->
        [gene |-> [g \in 0..2 |->
                      IF g = gene_count(person, og, tg)
                      THEN Add(probs[person].gene[g], pr)
                      ELSE probs[person].gene[g]],
         trait |-> [t \in BOOLEAN |->
                      IF t /\ person \in ht
                      THEN Add(probs[person].trait[t], pr)
                      ELSE probs[person].trait[t]]]]

update(probs, og, tg, ht, pr) ==
    [person \in DOMAIN probs |->
        [gene |-> [g \in 0..2 |->
                      IF g = gene_count(person, og, tg)
                      THEN Add(probs[person].gene[g], pr)
                      ELSE probs[person].gene[g]],
         trait |-> [t \in BOOLEAN |->
                      IF t = (person \in ht)
                      THEN Add(probs[person].trait[t], pr)
                      ELSE probs[person].trait[t]]]]

\* ---------------------------------------------------------------- normalize
\* sum(d.values()) over the dict's insertion order, starting from the int 0
gene_sum(d) == Add(Add(Add(Zero, d[2]), d[1]), d[0])

\* Faulty variant of trait_sum: the value of False is left out.
trait_sum_true_only(d) == Add(Zero, d[TRUE])

trait_sum(d) == Add(Add(Zero, d[TRUE]), d[FALSE])

RECURSIVE normalize_loop(_, _)
normalize_loop(probs, todo) ==
    IF todo = <<>> THEN [probabilities |-> probs, error |-> "none"]
    ELSE LET person == todo[1]
             gs == gene_sum(probs[person].gene)
         IN  IF IsZero(gs)
             THEN [probabilities |-> probs, error |-> "ZeroDivisionError"]
             ELSE LET p1 == [probs EXCEPT ![person].gene =
                                [g \in 0..2 |-> Div(probs[person].gene[g], gs)]]
                      ts == trait_sum(probs[person].trait)
                  IN  IF IsZero(ts)
                      THEN [probabilities |-> p1, error |-> "ZeroDivisionError"]
                      ELSE normalize_loop(
                               [p1 EXCEPT ![person].trait =
                                   [t \in BOOLEAN |-> Div(probs[person].trait[t], ts)]],
                               Tail(todo))

\* Faulty variant of normalize: a distribution whose sum is zero is passed
\* over, and the call returns normally.
RECURSIVE normalize_loop_guarded(_, _)
normalize_loop_guarded(probs, todo) ==
    IF todo = <<>> THEN [probabilities |-> probs, error |-> "none"]
    ELSE LET person == todo[1]
             gs == gene_sum(probs[person].gene)
             ts == trait_sum(probs[person].trait)
             p1 == IF IsZero(gs) THEN probs
                   ELSE [probs EXCEPT ![person].gene =
                            [g \in 0..2 |-> Div(probs[person].gene[g], gs)]]
             p2 == IF IsZero(ts) THEN p1
                   ELSE [p1 EXCEPT ![person].trait =
                            [t \in BOOLEAN |-> Div(probs[person].trait[t], ts)]]
         IN  normalize_loop_guarded(p2, Tail(todo))

normalize_guarded(probs) == normalize_loop_guarded(probs, SetToList(DOMAIN probs))

normalize(probs) == normalize_loop(probs, SetToList(DOMAIN probs))

\* --------------------------------------------------------------------- main
\* Faulty variant of fails_evidence: only a person observed without the trait
\* and listed with it counts.
fails_evidence_false_only(ppl, ht) ==
    \E person \in DOMAIN ppl :
        ppl[person].trait = "False" /\ person \in ht

fails_evidence(ppl, ht) ==
    \E person \in DOMAIN ppl :
        /\ ppl[person].trait # "None"
        /\ (ppl[person].trait = "True") # (person \in ht)

\* Faulty variant of two_genes_candidates: one_gene is not taken out.
two_genes_candidates_all(names, og) == powerset(names)

two_genes_candidates(names, og) == powerset(names \ og)

zero_probabilities(names) ==
    [person \in names |->
        [gene |-> [g \in 0..2 |-> Zero], trait |-> [t \in BOOLEAN |-> Zero]]]

names == DOMAIN people

\* main, lines 65-74: a subset that contradicts the evidence is passed over
Skip ==
    /\ pc = "loop"
    /\ ti <= Len(traits)
    /\ fails_evidence(people, traits[ti])
    /\ ti' = ti + 1
    /\ have_trait' = traits[ti]
    /\ UNCHANGED <<people, probabilities, pc, error, traits, oi, wi, ones, twos,
                   one_gene, two_genes, p, scoredTraits, scoredGenes, applied, given>>

\* main, lines 77-82: one pass of the innermost loop body, and the advance of
\* the three loops to the next pass
Score ==
    /\ pc = "loop"
    /\ ti <= Len(traits)
    /\ ~fails_evidence(people, traits[ti])
    /\ LET ht == traits[ti]
           \* line 77 is evaluated on entry to the loop over one_gene,
           \* line 78 on entry to the loop over two_genes
           os == IF oi = 1 /\ wi = 1 THEN powerset(names) ELSE ones
           og == os[oi]
           ts == IF wi = 1 THEN two_genes_candidates(names, og) ELSE twos
           tg == ts[wi]
           pr == joint_probability(people, og, tg, ht)
       IN  /\ have_trait' = ht
           /\ one_gene' = og
           /\ two_genes' = tg
           /\ p' = pr
           /\ ones' = os
           /\ twos' = ts
           /\ probabilities' = update(probabilities, og, tg, ht, pr)
           /\ scoredTraits' = IF oi = 1 /\ wi = 1
                              THEN Append(scoredTraits, ht) ELSE scoredTraits
           /\ scoredGenes' = IF oi = 1 /\ wi = 1
                             THEN <<(<<og, tg>>)>> ELSE Append(scoredGenes, <<og, tg>>)
           /\ IF wi < Len(ts)
              THEN /\ wi' = wi + 1
                   /\ UNCHANGED <<oi, ti>>
              ELSE IF oi < Len(os)
              THEN /\ wi' = 1
                   /\ oi' = oi + 1
                   /\ UNCHANGED ti
              ELSE /\ wi' = 1
                   /\ oi' = 1
                   /\ ti' = ti + 1
    /\ UNCHANGED <<people, pc, error, traits, applied, given>>

\* main, line 85
Normalize ==
    /\ pc = "loop"
    /\ ti > Len(traits)
    /\ LET r == normalize(probabilities)
       IN  /\ probabilities' = r.probabilities
           /\ error' = r.error
           /\ pc' = IF r.error = "none" THEN "done" ELSE "error"
    /\ given' = probabilities
    /\ UNCHANGED <<people, traits, ti, oi, wi, ones, twos, have_trait, one_gene,
                   two_genes, p, scoredTraits, scoredGenes, applied>>

\* ------------------------------------------------------------ the CSV files
Traits(k) == [1..k -> TraitCells]

\* Files that meet load_data's assumption: mother and father both blank, or
\* both names of the file; the parent relation is acyclic.  Names are labels,
\* so the files are taken up to renaming: parents stand in the rows above
\* their children, the mother above the father.
ValidParents(k) ==
    {f \in [1..k -> ({Blank} \cup 1..k) \X ({Blank} \cup 1..k)] :
        \A i \in 1..k :
            \/ f[i] = <<Blank, Blank>>
            \/ /\ f[i][1] \in 1..(i - 1)
               /\ f[i][2] \in 1..(i - 1)
               /\ f[i][1] < f[i][2]}

ValidFiles ==
    UNION {{[i \in 1..k |-> [mother |-> f[i][1], father |-> f[i][2], trait |-> t[i]]] :
               f \in ValidParents(k), t \in Traits(k)} : k \in 0..MaxPeople}

InitLocals ==
    /\ error = "none"
    /\ ones = <<>> /\ twos = <<>>
    /\ ti = 1 /\ oi = 1 /\ wi = 1
    /\ have_trait = {} /\ one_gene = {} /\ two_genes = {}
    /\ p = Zero
    /\ scoredTraits = <<>>
    /\ scoredGenes = <<>>
    /\ applied = <<>>
    /\ given = <<>>

\* main, lines 45-65, with the file given: the state on entry to the loops
Start(file) ==
    /\ people = load_data(file)
    /\ probabilities = zero_probabilities(DOMAIN file)
    /\ traits = powerset(DOMAIN file)
    /\ pc = "loop"
    /\ InitLocals

Init == \E file \in ValidFiles : Start(file)

Next == Skip \/ Score \/ Normalize

Spec == Init /\ [][Next]_vars

\* ------------------------------------------------- files of any shape
\* A file of k rows may name any row, or k + 1 (a name that is no row of the
\* file), or nothing, as the mother and as the father of each row.
MalformedPeople == MaxPeople - 1

AnyFiles ==
    UNION {[1..k -> [mother : {Blank} \cup 1..(k + 1),
                     father : {Blank} \cup 1..(k + 1),
                     trait : TraitCells]] :
               k \in 0..MalformedPeople}

InitAny == \E file \in AnyFiles : Start(file)

SpecAny == InitAny /\ [][Next]_vars

\* ------------------------------------------------- update, called freely
UpdNames == 1..2

Masses == {Dec(1, 1), Dec(3, 1)}

NoParents(ns) == [i \in ns |-> [mother |-> Blank, father |-> Blank, trait |-> ""]]

InitUpdate ==
    /\ people = load_data(NoParents(UpdNames))
    /\ probabilities = zero_probabilities(UpdNames)
    /\ traits = <<>>
    /\ pc = "update"
    /\ InitLocals

RECURSIVE CallCount(_, _)
CallCount(bag, cs) ==
    IF cs = {} THEN 0
    ELSE LET c == CHOOSE x \in cs : TRUE
         IN  bag[c] + CallCount(bag, cs \ {c})

\* one call update(probabilities, og, tg, ht, pr), with any arguments
UpdateCall ==
    /\ pc = "update"
    /\ CallCount(applied, DOMAIN applied) < MaxCalls
    /\ \E og \in SUBSET names, tg \in SUBSET names, ht \in SUBSET names, pr \in Masses :
         LET call == [one_gene |-> og, two_genes |-> tg, have_trait |-> ht, p |-> pr]
         IN  /\ probabilities' = update(probabilities, og, tg, ht, pr)
             /\ applied' = [c \in DOMAIN applied \cup {call} |->
                               IF c = call
                               THEN IF call \in DOMAIN applied
                                    THEN applied[call] + 1 ELSE 1
                               ELSE applied[c]]
    /\ UNCHANGED <<people, pc, error, traits, ones, twos, ti, oi, wi,
                   have_trait, one_gene, two_genes, p, scoredTraits, scoredGenes,
                   given>>

NextUpdate == UpdateCall

SpecUpdate == InitUpdate /\ [][NextUpdate]_vars

\* ---------------------------------------------- normalize, called freely
Levels == {Dec(m, 1) : m \in 0..MaxMass}

Accumulators ==
    [UpdNames -> [gene : [0..2 -> Levels], trait : [BOOLEAN -> Levels]]]

InitNormalize ==
    /\ people = load_data(NoParents(UpdNames))
    /\ probabilities \in Accumulators
    /\ traits = <<>>
    /\ pc = "normalize"
    /\ InitLocals

\* one call normalize(probabilities)
NormalizeCall ==
    /\ pc = "normalize"
    /\ LET r == normalize(probabilities)
       IN  /\ probabilities' = r.probabilities
           /\ error' = r.error
           /\ pc' = IF r.error = "none" THEN "done" ELSE "error"
    /\ given' = probabilities
    /\ UNCHANGED <<people, traits, ones, twos, ti, oi, wi, have_trait, one_gene,
                   two_genes, p, scoredTraits, scoredGenes, applied>>

NextNormalize == NormalizeCall

SpecNormalize == InitNormalize /\ [][NextNormalize]_vars

\* ================================================================== claims
Range(q) == {q[i] : i \in 1..Len(q)}

Last(q) == q[Len(q)]

Founder(person) ==
    people[person].mother = None /\ people[person].father = None

\* some person has exactly one parent, or a parent that is no row of the file
Malformed ==
    \E person \in names :
        \/ (people[person].mother = None) # (people[person].father = None)
        \/ people[person].mother \notin names \cup {None}
        \/ people[person].father \notin names \cup {None}

GeneTotal(d) == Add(Add(d[0], d[1]), d[2])

TraitTotal(d) == Add(d[TRUE], d[FALSE])

\* ---- C1
\* C1: for every valid population and every trait evidence, main reaches the
\* end of normalize without an error, and then every person's gene-count
\* distribution sums to 1 and every person's trait distribution sums to 1.
C1_DistributionsSumToOne ==
    /\ pc # "error"
    /\ pc = "done" =>
         \A person \in names :
            /\ Eq(GeneTotal(probabilities[person].gene), One)
            /\ Eq(TraitTotal(probabilities[person].trait), One)

C1_Witness ==
    /\ pc = "done"
    /\ Cardinality(names) = 3
    /\ ~Founder(3)
    /\ people[1].trait = "None"
    /\ people[3].trait = "True"
    /\ ~IsZero(probabilities[1].trait[TRUE])
    /\ ~IsZero(probabilities[1].trait[FALSE])

\* ---- C2
\* C2: a person whose observed trait is True never receives mass in the False
\* bucket of the trait accumulator, and the final trait distribution of that
\* person is exactly 1 on True and 0 on False, whatever the other evidence.
C2_EvidenceIsCertain ==
    \A person \in names :
        people[person].trait = "True" =>
            /\ pc = "loop" => IsZero(probabilities[person].trait[FALSE])
            /\ pc = "done" =>
                 /\ Eq(probabilities[person].trait[TRUE], One)
                 /\ IsZero(probabilities[person].trait[FALSE])

C2_Witness ==
    /\ pc = "done"
    /\ \E a \in names, b \in names, c \in names :
         /\ people[a].trait = "True"
         /\ people[b].trait = "False"
         /\ people[c].trait = "None"
         /\ Eq(probabilities[a].trait[TRUE], One)

\* ---- C5
\* the transmission probability of a parent with the given number of copies
Transmit(copies) ==
    CASE copies = 1 -> Dec(50, 1)
      [] copies = 2 -> OneMinus(PROBS.mutation)
      [] copies = 0 -> PROBS.mutation

Copies(person, og, tg) ==
    IF person \in og THEN 1 ELSE IF person \in tg THEN 2 ELSE 0

GeneFactor(person, og, tg) ==
    IF Founder(person)
    THEN PROBS.gene[Copies(person, og, tg)]
    ELSE LET m == Transmit(Copies(people[person].mother, og, tg))
             f == Transmit(Copies(people[person].father, og, tg))
             g == Copies(person, og, tg)
         IN  CASE g = 0 -> Mul(OneMinus(m), OneMinus(f))
               [] g = 1 -> Add(Mul(m, OneMinus(f)), Mul(OneMinus(m), f))
               [] g = 2 -> Mul(m, f)

RECURSIVE JointProduct(_, _, _, _)
JointProduct(S, og, tg, ht) ==
    IF S = {} THEN One
    ELSE LET person == CHOOSE x \in S : \A y \in S : y <= x
         IN  Mul(JointProduct(S \ {person}, og, tg, ht),
                 Mul(GeneFactor(person, og, tg),
                     PROBS.trait[Copies(person, og, tg)][(person \in ht)]))

\* C5: the value joint_probability returned to main at the last call is the
\* product over all persons of the gene term (the prior of the person's count
\* for a person without parents; (1-m)(1-f), m(1-f)+(1-m)f or m*f for a person
\* with parents, by the person's count, m and f being the parents'
\* transmission probabilities 0.5, 1 - mutation or mutation by their counts in
\* the same assignment) and the trait term PROBS[trait][count][has trait].
C5_JointIsProduct ==
    scoredTraits # <<>> =>
        /\ one_gene \cap two_genes = {}
        /\ Eq(p, JointProduct(names, one_gene, two_genes, Last(scoredTraits)))

C5_Witness ==
    /\ scoredTraits # <<>>
    /\ Cardinality(names) = 3
    /\ ~Founder(3)
    /\ 3 \in one_gene
    /\ people[3].mother \in one_gene
    /\ people[3].father \in two_genes
    /\ Last(scoredTraits) = {3}

Admissible ==
    {s \in SUBSET names :
        \A person \in names :
            /\ people[person].trait = "True" => person \in s
            /\ people[person].trait = "False" => person \notin s}

Unknown == {person \in names : people[person].trait = "None"}

\* C8: every trait subset main scores is admissible (holds every person
\* observed True, no person observed False) and is scored once; when the loop
\* over the subsets is over, every admissible subset has been scored: 2^k
\* subsets for k persons of unknown trait, at least one.
C8_AdmissibleSubsetsScoredOnce ==
    /\ \A i \in 1..Len(scoredTraits) : scoredTraits[i] \in Admissible
    /\ Cardinality(Range(scoredTraits)) = Len(scoredTraits)
    /\ (pc = "loop" /\ ti > Len(traits)) \/ pc \in {"done", "error"} =>
          /\ Range(scoredTraits) = Admissible
          /\ Len(scoredTraits) = 2 ^ Cardinality(Unknown)
          /\ Len(scoredTraits) >= 1

C8_Witness ==
    /\ pc = "done"
    /\ Cardinality(names) = 3
    /\ Cardinality(Unknown) = 1
    /\ Len(scoredTraits) = 2
    /\ \E person \in names : people[person].trait = "True"
    /\ \E person \in names : people[person].trait = "False"

\* ---- C9
\* the assignment of a gene count to every person that a pair stands for
CountsOf(pair) == [person \in names |-> Copies(person, pair[1], pair[2])]

\* main has just scored the last pair of a trait subset
SubsetCompleted == scoredTraits # <<>> /\ oi = 1 /\ wi = 1

\* C9: the pairs (one_gene, two_genes) main passes on are disjoint and, within
\* one trait subset, all different; when a trait subset is completed the pairs
\* scored for it are every assignment of a count in {0,1,2} to every person,
\* each once: 3^n pairs for n persons.
C9_EveryGeneAssignmentOnce ==
    /\ \A i \in 1..Len(scoredGenes) : scoredGenes[i][1] \cap scoredGenes[i][2] = {}
    /\ Cardinality(Range(scoredGenes)) = Len(scoredGenes)
    /\ SubsetCompleted =>
          /\ {CountsOf(scoredGenes[i]) : i \in 1..Len(scoredGenes)} = [names -> 0..2]
          /\ Len(scoredGenes) = 3 ^ Cardinality(names)

C9_Witness ==
    /\ SubsetCompleted
    /\ Cardinality(names) = 3
    /\ Len(scoredGenes) = 27
    /\ Len(scoredTraits) = 2

\* ---- C4
\* C4: a malformed population (a person with exactly one parent, or with a
\* parent that is no member of the population) is rejected before inference
\* begins: no assignment is ever scored for it.
C4_MalformedNeverScored ==
    Malformed => (scoredTraits = <<>> /\ pc # "done")

\* ---- C3
HasZeroSum(acc) ==
    \E person \in DOMAIN acc :
        \/ IsZero(GeneTotal(acc[person].gene))
        \/ IsZero(TraitTotal(acc[person].trait))

\* The distributions in the order normalize visits them: person 1's gene
\* counts, person 1's trait, person 2's gene counts, ...
Visit(person, statistic) == 2 * person + (IF statistic = "trait" THEN 1 ELSE 0)

Total(acc, person, statistic) ==
    IF statistic = "gene" THEN GeneTotal(acc[person].gene)
    ELSE TraitTotal(acc[person].trait)

FirstZeroSum(acc) ==
    CHOOSE v \in {Visit(person, st) : person \in DOMAIN acc, st \in {"gene", "trait"}} :
        /\ \E person \in DOMAIN acc, st \in {"gene", "trait"} :
              v = Visit(person, st) /\ IsZero(Total(acc, person, st))
        /\ \A person \in DOMAIN acc, st \in {"gene", "trait"} :
              IsZero(Total(acc, person, st)) => v <= Visit(person, st)

\* C3, as stated: normalize, given accumulators with a zero-sum distribution,
\* fails with the designated "unsatisfiable evidence" error.
C3_DesignatedError ==
    (pc # "normalize" /\ HasZeroSum(given)) =>
        (pc = "error" /\ error = "UnsatisfiableEvidence")

\* C3, amended: normalize, given accumulators with a zero-sum distribution,
\* never returns normally: it ends with the ZeroDivisionError of the division
\* itself, at the first zero-sum distribution in the order of the visit.  No
\* bucket holds a value that is neither its old value nor its normalized
\* value: the distributions visited before are normalized, the zero-sum one
\* and all after it are as they were.
C3_ZeroDivisionError ==
    (pc # "normalize" /\ HasZeroSum(given)) =>
        /\ pc = "error"
        /\ error = "ZeroDivisionError"
        /\ \A person \in DOMAIN given, st \in {"gene", "trait"} :
              IF Visit(person, st) < FirstZeroSum(given)
              THEN \A k \in DOMAIN given[person][st] :
                      Eq(Mul(probabilities[person][st][k], Total(given, person, st)),
                         given[person][st][k])
              ELSE probabilities[person][st] = given[person][st]

C3_Witness ==
    /\ pc = "error"
    /\ error = "ZeroDivisionError"
    /\ ~IsZero(GeneTotal(given[1].gene))
    /\ IsZero(TraitTotal(given[1].trait))
    /\ probabilities[1].gene # given[1].gene
    /\ ~IsZero(GeneTotal(given[2].gene))

\* ---- C7
GeneBucket(call, person) ==
    IF person \in call.one_gene THEN 1
    ELSE IF person \in call.two_genes THEN 2 ELSE 0

TraitBucket(call, person) == person \in call.have_trait

\* the mass of the calls in cs, each as many times as it was made
RECURSIVE MassOf(_, _)
MassOf(bag, cs) ==
    IF cs = {} THEN Zero
    ELSE LET c == CHOOSE x \in cs : TRUE
         IN  Add(MassOf(bag, cs \ {c}), Mul(c.p, Dec(bag[c], 0)))

\* C7: after any calls of update, in any order, each bucket holds the mass of
\* exactly the calls that name it: gene bucket 1 of a person the calls with
\* the person in one_gene, bucket 2 those with the person in two_genes and not
\* in one_gene, bucket 0 the others; trait bucket True the calls with the
\* person in have_trait, False the others.  The totals are a function of the
\* calls made and of nothing else: not of their order.
C7_UpdateAddsToItsBuckets ==
    \A person \in names :
        /\ \A g \in 0..2 :
              Eq(probabilities[person].gene[g],
                 MassOf(applied, {c \in DOMAIN applied : GeneBucket(c, person) = g}))
        /\ \A t \in BOOLEAN :
              Eq(probabilities[person].trait[t],
                 MassOf(applied, {c \in DOMAIN applied : TraitBucket(c, person) = t}))

C7_Witness ==
    /\ pc = "update"
    /\ \E c \in DOMAIN applied, d \in DOMAIN applied :
          /\ c # d
          /\ c.p # d.p
          /\ 1 \in c.one_gene /\ 1 \in c.two_genes
          /\ 1 \in d.two_genes /\ 1 \notin d.one_gene
          /\ 2 \in c.have_trait /\ 2 \notin d.have_trait

\* ---- C10
\* C10: after any calls of update from the all-zero accumulators, the three
\* gene buckets of a person and the two trait buckets of a person both sum to
\* the total of the p added so far, the same for all persons; so either every
\* distribution has a zero sum or none has.
C10_SumsEqualTotalMass ==
    LET total == MassOf(applied, DOMAIN applied)
    IN  /\ \A person \in names :
              /\ Eq(GeneTotal(probabilities[person].gene), total)
              /\ Eq(TraitTotal(probabilities[person].trait), total)
        /\ \/ \A person \in names :
                 /\ IsZero(GeneTotal(probabilities[person].gene))
                 /\ IsZero(TraitTotal(probabilities[person].trait))
           \/ \A person \in names :
                 /\ ~IsZero(GeneTotal(probabilities[person].gene))
                 /\ ~IsZero(TraitTotal(probabilities[person].trait))

C10_Witness ==
    /\ pc = "update"
    /\ CallCount(applied, DOMAIN applied) = 2
    /\ Cardinality(DOMAIN applied) = 2
    /\ Eq(GeneTotal(probabilities[1].gene), Dec(4, 1))
    /\ Eq(TraitTotal(probabilities[2].trait), Dec(4, 1))
    /\ ~IsZero(probabilities[1].gene[1])
    /\ ~IsZero(probabilities[1].gene[2])

====
